---------------------------- MODULE Spec2Model ----------------------------
(***************************************************************************)
(* Model of the orbbs telnet framer: the frame decoder of                  *)
(* src/src/telnet/frame.rs (parse_iac, parse_csi, parse_data) and the      *)
(* session of src/src/telnet/connection.rs (Connection::next_frame) driven *)
(* by the loop of src/src/main.rs (process).                               *)
(***************************************************************************)
EXTENDS Integers, Sequences, FiniteSets, TLC

VARIABLES
    buffer,     \* Connection.buffer: bytes received and not yet framed
    pre,        \* the buffer as it was when the last call started
    result,     \* what the last call returned (a frame, Next, or None)
    nreads,     \* socket reads performed inside the last call
    decodes,    \* decode attempts performed inside the last call
    received,   \* every byte the socket has delivered so far, in order
    consumed,   \* concatenation of the spans removed from the buffer's head
    span,       \* the span the last call removed from the buffer's head
    log,        \* the results returned so far, retry sentinels left out
    reads,      \* the outcome of each socket read so far, in order
    script,     \* scripted peer: the chunks it still has to deliver
    writes,     \* the write_all calls made on the socket so far, in order
    expect,     \* round trip: the frames whose raw bytes were concatenated
    pc          \* the caller: "will_echo", "will_sga", "do_ttype", "ttype"
                \* (the calls of process before its loop), "run" (the loop
                \* of process), "done" (process returned Ok), "failed"
                \* (process returned a write's error), "decode" (the
                \* decoder is called on its own)

vars == << buffer, pre, result, nreads, decodes, received, consumed, span,
           log, reads, script, writes, expect, pc >>

----------------------------------------------------------------------------
(* Wire bytes *)

IAC == 255
SB == 250
SE == 240
ESC == 27
LBracket == 91
FinalLo == 64
FinalHi == 126

(* Bounds *)
MaxLen == 6
MaxAppend == 2
MaxStream == 4
MaxRead == 2
MaxChunks == 3
MaxCommand == 5
MaxCsi == 4
MaxData == 2

\* The byte values the model draws inputs from: the introducers, the
\* subnegotiation markers, '[' (also a final byte), a plain non-final byte
\* (0x01) and a plain final byte ('h').
Bytes == {IAC, SB, SE, ESC, LBracket, 1, 104}

SeqsUpTo(S, n) == UNION {[1..k -> S] : k \in 0..n}

----------------------------------------------------------------------------
(* TelnetFrame and Option<TelnetFrame> *)

Frame(kind, bytes) == [kind |-> kind, bytes |-> bytes]
None == Frame("None", <<>>)
NextFrameSentinel == Frame("Next", <<>>)

\* The outcome of one parser call: the Option returned and the buffer left.
Out(frame, buf) == [frame |-> frame, buffer |-> buf]

(* bytes::BytesMut operations *)

\* buffer.get(i), 0-based: <<b>> for Some(b), <<>> for None.
Get(buf, i) == IF i < Len(buf) THEN <<buf[i + 1]>> ELSE <<>>

\* buffer.split_to(at): the first `at` bytes; the buffer keeps the rest.
SplitTo(buf, at) == SubSeq(buf, 1, at)
Rest(buf, at) == SubSeq(buf, at + 1, Len(buf))

\* Variant: the last occurrence (rposition) instead of the first.
WindowsPositionLast(buf, needle) ==
    LET hits == {i \in 0..(Len(buf) - 2) : SubSeq(buf, i + 1, i + 2) = needle}
    IN  IF hits = {} THEN <<>>
        ELSE <<CHOOSE i \in hits : \A j \in hits : i >= j>>

\* buffer.windows(2).position(|p| p == needle): <<i>> (0-based) or <<>>.
WindowsPosition(buf, needle) ==
    LET hits == {i \in 0..(Len(buf) - 2) : SubSeq(buf, i + 1, i + 2) = needle}
    IN  IF hits = {} THEN <<>>
        ELSE <<CHOOSE i \in hits : \A j \in hits : i <= j>>

\* iter().skip(from).position(|b| b is in `matching`): the index, relative
\* to `from`, of the first such byte, as <<i>>, or <<>>.
Position(buf, from, matching) ==
    LET hits == {i \in from..(Len(buf) - 1) : buf[i + 1] \in matching}
    IN  IF hits = {} THEN <<>>
        ELSE <<(CHOOSE i \in hits : \A j \in hits : i <= j) - from>>

\* (0x40..=0x7E), and the bytes parse_data stops at.
Finals == FinalLo..FinalHi
Introducers == {IAC, ESC}
IsFinal(b) == b \in Finals
IsIntroducer(b) == b \in Introducers

----------------------------------------------------------------------------
(* TelnetFrame::parse_iac *)

\* Variant: the subnegotiation arm skips the two introducer bytes before it
\* searches, and does not put them back when the terminator is missing.
parse_iac_eager(buf) ==
    LET b0 == Get(buf, 0)
        b1 == Get(buf, 1)
        b2 == Get(buf, 2)
    IN  IF b0 = <<IAC>> /\ b1 = <<IAC>>
        THEN Out(Frame("Data", <<IAC>>), Rest(buf, 2))
        ELSE IF b0 = <<IAC>> /\ b1 = <<SB>>
        THEN LET p == WindowsPosition(buf, <<IAC, SE>>)
             IN  IF p # <<>>
                 THEN Out(Frame("IAC", SplitTo(buf, p[1] + 2)), Rest(buf, p[1] + 2))
                 ELSE Out(None, Rest(buf, 2))
        ELSE IF b0 = <<IAC>> /\ b1 # <<>> /\ b2 # <<>>
        THEN Out(Frame("IAC", SplitTo(buf, 3)), Rest(buf, 3))
        ELSE Out(None, buf)

\* Variant: the subnegotiation arm ends the block at the first SE byte,
\* whether or not IAC precedes it.
parse_iac_single_se(buf) ==
    LET b0 == Get(buf, 0)
        b1 == Get(buf, 1)
        b2 == Get(buf, 2)
    IN  IF b0 = <<IAC>> /\ b1 = <<IAC>>
        THEN Out(Frame("Data", <<IAC>>), Rest(buf, 2))
        ELSE IF b0 = <<IAC>> /\ b1 = <<SB>>
        THEN LET p == Position(buf, 0, {SE})
             IN  IF p # <<>>
                 THEN Out(Frame("IAC", SplitTo(buf, p[1] + 1)), Rest(buf, p[1] + 1))
                 ELSE Out(None, buf)
        ELSE IF b0 = <<IAC>> /\ b1 # <<>> /\ b2 # <<>>
        THEN Out(Frame("IAC", SplitTo(buf, 3)), Rest(buf, 3))
        ELSE Out(None, buf)

\* Variant: the three-byte arm accepts only the verbs of TelnetAction
\* (WILL 251 .. DONT 254).
parse_iac_known_verbs(buf) ==
    LET b0 == Get(buf, 0)
        b1 == Get(buf, 1)
        b2 == Get(buf, 2)
    IN  IF b0 = <<IAC>> /\ b1 = <<IAC>>
        THEN Out(Frame("Data", <<IAC>>), Rest(buf, 2))
        ELSE IF b0 = <<IAC>> /\ b1 = <<SB>>
        THEN LET p == WindowsPosition(buf, <<IAC, SE>>)
             IN  IF p # <<>>
                 THEN Out(Frame("IAC", SplitTo(buf, p[1] + 2)), Rest(buf, p[1] + 2))
                 ELSE Out(None, buf)
        ELSE IF b0 = <<IAC>> /\ b1 # <<>> /\ b2 # <<>> /\ b1[1] \in 251..254
        THEN Out(Frame("IAC", SplitTo(buf, 3)), Rest(buf, 3))
        ELSE Out(None, buf)

\* Variant: the three-byte arm is tried before the escaped literal, so the
\* second IAC is read as a verb once a third byte is buffered.
parse_iac_verb_first(buf) ==
    LET b0 == Get(buf, 0)
        b1 == Get(buf, 1)
        b2 == Get(buf, 2)
    IN  IF b0 = <<IAC>> /\ b1 # <<>> /\ b1 # <<SB>> /\ b2 # <<>>
        THEN Out(Frame("IAC", SplitTo(buf, 3)), Rest(buf, 3))
        ELSE IF b0 = <<IAC>> /\ b1 = <<IAC>>
        THEN Out(Frame("Data", <<IAC>>), Rest(buf, 2))
        ELSE IF b0 = <<IAC>> /\ b1 = <<SB>>
        THEN LET p == WindowsPosition(buf, <<IAC, SE>>)
             IN  IF p # <<>>
                 THEN Out(Frame("IAC", SplitTo(buf, p[1] + 2)), Rest(buf, p[1] + 2))
                 ELSE Out(None, buf)
        ELSE Out(None, buf)

\* Variant: the three-byte arm does not wait for the option byte and hands
\* out IAC verb as soon as the two are buffered.
parse_iac_short_command(buf) ==
    LET b0 == Get(buf, 0)
        b1 == Get(buf, 1)
    IN  IF b0 = <<IAC>> /\ b1 = <<IAC>>
        THEN Out(Frame("Data", <<IAC>>), Rest(buf, 2))
        ELSE IF b0 = <<IAC>> /\ b1 = <<SB>>
        THEN LET p == WindowsPosition(buf, <<IAC, SE>>)
             IN  IF p # <<>>
                 THEN Out(Frame("IAC", SplitTo(buf, p[1] + 2)), Rest(buf, p[1] + 2))
                 ELSE Out(None, buf)
        ELSE IF b0 = <<IAC>> /\ b1 # <<>>
        THEN LET n == IF Len(buf) < 3 THEN Len(buf) ELSE 3
             IN  Out(Frame("IAC", SplitTo(buf, n)), Rest(buf, n))
        ELSE Out(None, buf)

parse_iac(buf) ==
    LET b0 == Get(buf, 0)
        b1 == Get(buf, 1)
        b2 == Get(buf, 2)
    IN  IF b0 = <<IAC>> /\ b1 = <<IAC>>
        THEN Out(Frame("Data", <<IAC>>), Rest(buf, 2))
        ELSE IF b0 = <<IAC>> /\ b1 = <<SB>>
        THEN LET p == WindowsPosition(buf, <<IAC, SE>>)
             IN  IF p # <<>>
                 THEN Out(Frame("IAC", SplitTo(buf, p[1] + 2)), Rest(buf, p[1] + 2))
                 ELSE Out(None, buf)
        ELSE IF b0 = <<IAC>> /\ b1 # <<>> /\ b2 # <<>>
        THEN Out(Frame("IAC", SplitTo(buf, 3)), Rest(buf, 3))
        ELSE Out(None, buf)

(* TelnetFrame::parse_csi *)

\* Variant: the split is one byte short (i + 2), leaving the final byte.
parse_csi_short(buf) ==
    IF ~(Len(buf) >= 2 /\ SubSeq(buf, 1, 2) = <<ESC, LBracket>>)
    THEN Out(None, buf)
    ELSE LET p == Position(buf, 2, Finals)
         IN  IF p # <<>>
             THEN Out(Frame("CSI", SplitTo(buf, p[1] + 2)), Rest(buf, p[1] + 2))
             ELSE Out(None, buf)

parse_csi(buf) ==
    IF ~(Len(buf) >= 2 /\ SubSeq(buf, 1, 2) = <<ESC, LBracket>>)
    THEN Out(None, buf)
    ELSE LET p == Position(buf, 2, Finals)
         IN  IF p # <<>>
             THEN Out(Frame("CSI", SplitTo(buf, p[1] + 3)), Rest(buf, p[1] + 3))
             ELSE Out(None, buf)

(* TelnetFrame::parse_data *)

\* Variant: the split before an introducer also drops the introducer.
parse_data_drop(buf) ==
    LET p == Position(buf, 0, Introducers)
    IN  IF p = <<0>>
        THEN Out(None, buf)
        ELSE IF p # <<>>
        THEN Out(Frame("Data", SplitTo(buf, p[1])), Rest(buf, p[1] + 1))
        ELSE IF buf = <<>>
        THEN Out(None, buf)
        ELSE Out(Frame("Data", buf), <<>>)

\* Variant: a buffer without introducer is handed out one byte at a time.
parse_data_one(buf) ==
    LET p == Position(buf, 0, Introducers)
    IN  IF p = <<0>>
        THEN Out(None, buf)
        ELSE IF p # <<>>
        THEN Out(Frame("Data", SplitTo(buf, p[1])), Rest(buf, p[1]))
        ELSE IF buf = <<>>
        THEN Out(None, buf)
        ELSE Out(Frame("Data", SplitTo(buf, 1)), Rest(buf, 1))

\* Variant: only IAC stops a data run; ESC is taken as data.
parse_data_iac_only(buf) ==
    LET p == Position(buf, 0, {IAC})
    IN  IF p = <<0>>
        THEN Out(None, buf)
        ELSE IF p # <<>>
        THEN Out(Frame("Data", SplitTo(buf, p[1])), Rest(buf, p[1]))
        ELSE IF buf = <<>>
        THEN Out(None, buf)
        ELSE Out(Frame("Data", buf), <<>>)

\* Variant: the is_empty check is missing, so an empty buffer yields an
\* empty Data frame.
parse_data_empty(buf) ==
    LET p == Position(buf, 0, Introducers)
    IN  IF p = <<0>>
        THEN Out(None, buf)
        ELSE IF p # <<>>
        THEN Out(Frame("Data", SplitTo(buf, p[1])), Rest(buf, p[1]))
        ELSE Out(Frame("Data", buf), <<>>)

parse_data(buf) ==
    LET p == Position(buf, 0, Introducers)
    IN  IF p = <<0>>
        THEN Out(None, buf)
        ELSE IF p # <<>>
        THEN Out(Frame("Data", SplitTo(buf, p[1])), Rest(buf, p[1]))
        ELSE IF buf = <<>>
        THEN Out(None, buf)
        ELSE Out(Frame("Data", buf), <<>>)

\* The decode sequence of Connection::next_frame:
\* parse_iac(..).or_else(parse_csi).or_else(parse_data), each on the buffer
\* as the one before left it.
Decode(buf) ==
    LET a == parse_iac(buf)
    IN  IF a.frame # None THEN a
        ELSE LET c == parse_csi(a.buffer)
             IN  IF c.frame # None THEN c
                 ELSE parse_data(c.buffer)

----------------------------------------------------------------------------
(* Negotiation vocabulary and the writes of Connection *)

\* TelnetAction and TelnetOption, as num::ToPrimitive::to_u8 gives them.
Will == 251
Wont == 252
Do == 253
Dont == 254
Echo == 1
SuppressGoAhead == 3
TerminalType == 24

\* Result<()> of a send.
ResultOk == Frame("Ok", <<>>)
ResultErr == Frame("Err", <<>>)

\* One write_all call: the bytes handed to it and whether it returned Ok
\* (all bytes written) or Err.
WriteRec(bytes, ok) == [bytes |-> bytes, ok |-> ok]

\* Connection::send_negotiation: the three bytes it writes.
NegotiationBytes(action, option) == <<IAC, action, option>>

\* Connection::request_terminal_type: its two writes.
TerminalTypeDo == <<255, 253, 24>>
TerminalTypeSend == <<255, 250, 24, 1, 255, 240>>

\* The writes process has made when it enters its loop.
PreludeWrites ==
    << WriteRec(NegotiationBytes(Will, Echo), TRUE),
       WriteRec(NegotiationBytes(Will, SuppressGoAhead), TRUE),
       WriteRec(NegotiationBytes(Do, TerminalType), TRUE),
       WriteRec(TerminalTypeDo, TRUE),
       WriteRec(TerminalTypeSend, TRUE) >>

----------------------------------------------------------------------------
(* The decoder alone, on every buffer up to MaxLen bytes *)

\* The buffers the unit tests of frame.rs feed to the parsers.
TestBuffers ==
    { <<255, 250, 1, 2, 240, 255>>, <<255, 251, 3>>, <<1, 2, 3>>,
      <<255, 250, 1, 2>>, <<255, 251>>, <<255, 255, 1, 2>>,
      <<1, 2, 255, 3, 4>>, <<1, 2, 27, 3, 4>>, <<1, 2, 3, 4>>,
      <<27, 91, 49, 59, 50, 72>>, <<27, 91, 49, 59, 50>> }

InitDecode ==
    /\ buffer \in SeqsUpTo(Bytes, MaxLen) \cup TestBuffers
    /\ pre = <<>>
    /\ result = None
    /\ nreads = 0
    /\ decodes = 0
    /\ received = <<>>
    /\ consumed = <<>>
    /\ span = <<>>
    /\ log = <<>>
    /\ reads = <<>>
    /\ script = <<>>
    /\ expect = <<>>
    /\ writes = <<>>
    /\ pc = "decode"

\* One decode call on the buffer.  In a round trip (expect is set) the
\* frames returned are logged, one call per expected frame.
DecodeCall ==
    /\ pc = "decode"
    /\ expect # <<>> => Len(log) < Len(expect)
    /\ LET d == Decode(buffer)
       IN  /\ buffer' = d.buffer
           /\ result' = d.frame
           /\ pre' = buffer
           /\ decodes' = 1
           /\ log' = IF expect # <<>> THEN Append(log, d.frame) ELSE log
    /\ UNCHANGED << nreads, received, consumed, span, reads, script,
                    writes, expect, pc >>

NextDecode == DecodeCall

SpecDecode == InitDecode /\ [][NextDecode]_vars

----------------------------------------------------------------------------
(* The session: Connection::next_frame called by the loop of process *)

\* One socket read's outcome: Ok(n) with the n bytes appended, or Err.
ReadOk(bytes) == [ok |-> TRUE, bytes |-> bytes]
ReadErr == [ok |-> FALSE, bytes |-> <<>>]

\* The span a parse removed from the head of the buffer it was given.
Removed(before, after) == SubSeq(before, 1, Len(before) - Len(after))

\* Connection::new: an empty buffer; the peer has sent nothing yet.
InitSession ==
    /\ buffer = <<>>
    /\ pre = <<>>
    /\ result = None
    /\ nreads = 0
    /\ decodes = 0
    /\ received = <<>>
    /\ consumed = <<>>
    /\ span = <<>>
    /\ log = <<>>
    /\ reads = <<>>
    /\ script = <<>>
    /\ expect = <<>>
    /\ writes = PreludeWrites
    /\ pc = "run"

\* next_frame, Some(frame) arm: a frame was decoded and is returned without
\* a read.  The loop of process then prints it and, for Data, echoes it; a
\* failed echo ends process with the error.
NextFrameDecoded ==
    /\ pc = "run"
    /\ LET d == Decode(buffer)
       IN  /\ d.frame # None
           /\ buffer' = d.buffer
           /\ result' = d.frame
           /\ span' = Removed(buffer, d.buffer)
           /\ consumed' = consumed \o Removed(buffer, d.buffer)
           /\ log' = Append(log, d.frame)
           /\ \E sendOk \in BOOLEAN :
                /\ pc' = IF d.frame.kind = "Data" /\ ~sendOk THEN "failed" ELSE "run"
                /\ writes' = IF d.frame.kind = "Data"
                             THEN Append(writes, WriteRec(d.frame.bytes, sendOk))
                             ELSE writes
    /\ pre' = buffer
    /\ nreads' = 0
    /\ decodes' = 1
    /\ UNCHANGED << received, reads, script, expect >>

\* Variant: the read is issued without looking at the decode result.
NextFrameReadEager(chunk) ==
    /\ pc = "run"
    /\ chunk # <<>>
    /\ buffer' = buffer \o chunk
    /\ span' = <<>>
    /\ consumed' = consumed
    /\ result' = NextFrameSentinel
    /\ received' = received \o chunk
    /\ reads' = Append(reads, ReadOk(chunk))
    /\ pre' = buffer
    /\ nreads' = 1
    /\ decodes' = 1
    /\ UNCHANGED << log, writes, expect, pc >>

\* Variant: after a read of n > 0 bytes the call decodes again itself and
\* returns the frame if there is one.
NextFrameReadRetry(chunk) ==
    /\ pc = "run"
    /\ chunk # <<>>
    /\ Decode(buffer).frame = None
    /\ LET d == Decode(buffer \o chunk)
       IN  /\ buffer' = d.buffer
           /\ span' = Removed(buffer \o chunk, d.buffer)
           /\ consumed' = consumed \o Removed(buffer \o chunk, d.buffer)
           /\ result' = IF d.frame = None THEN NextFrameSentinel ELSE d.frame
           /\ log' = IF d.frame = None THEN log ELSE Append(log, d.frame)
    /\ received' = received \o chunk
    /\ reads' = Append(reads, ReadOk(chunk))
    /\ pre' = buffer
    /\ nreads' = 1
    /\ decodes' = 2
    /\ UNCHANGED << writes, expect, pc >>

\* next_frame, None arm, read_buf returns Ok(n) with n > 0: the bytes are
\* appended at the tail and Some(Next) is returned.
NextFrameRead(chunk) ==
    /\ pc = "run"
    /\ chunk # <<>>
    /\ LET d == Decode(buffer)
       IN  /\ d.frame = None
           /\ buffer' = d.buffer \o chunk
           /\ span' = Removed(buffer, d.buffer)
           /\ consumed' = consumed \o Removed(buffer, d.buffer)
    /\ result' = NextFrameSentinel
    /\ received' = received \o chunk
    /\ reads' = Append(reads, ReadOk(chunk))
    /\ pre' = buffer
    /\ nreads' = 1
    /\ decodes' = 1
    /\ UNCHANGED << log, writes, expect, pc >>

\* next_frame, None arm, read_buf returns Ok(0): the peer closed; None is
\* returned and process returns.
NextFrameEof ==
    /\ pc = "run"
    /\ script = <<>>
    /\ LET d == Decode(buffer)
       IN  /\ d.frame = None
           /\ buffer' = d.buffer
           /\ span' = Removed(buffer, d.buffer)
           /\ consumed' = consumed \o Removed(buffer, d.buffer)
    /\ result' = None
    /\ reads' = Append(reads, ReadOk(<<>>))
    /\ log' = Append(log, None)
    /\ pre' = buffer
    /\ nreads' = 1
    /\ decodes' = 1
    /\ pc' = "done"
    /\ UNCHANGED << received, script, writes, expect >>

\* next_frame, None arm, read_buf returns Err: handled as a close.
NextFrameErr ==
    /\ pc = "run"
    /\ LET d == Decode(buffer)
       IN  /\ d.frame = None
           /\ buffer' = d.buffer
           /\ span' = Removed(buffer, d.buffer)
           /\ consumed' = consumed \o Removed(buffer, d.buffer)
    /\ result' = None
    /\ reads' = Append(reads, ReadErr)
    /\ log' = Append(log, None)
    /\ pre' = buffer
    /\ nreads' = 1
    /\ decodes' = 1
    /\ pc' = "done"
    /\ UNCHANGED << received, script, writes, expect >>

\* The peer sends any bytes in any fragmentation, up to MaxStream in all,
\* at most MaxRead per read.  The bytes are those of Bytes without 0x01: in
\* a data position SB and SE are plain non-final bytes already.
SessionBytes == {IAC, SB, SE, ESC, LBracket, 104}
Chunks == SeqsUpTo(SessionBytes, MaxRead) \ {<<>>}

ReadAny ==
    \E chunk \in Chunks :
        /\ Len(received) + Len(chunk) <= MaxStream
        /\ NextFrameRead(chunk)
        /\ script' = script

Next ==
    \/ NextFrameDecoded
    \/ ReadAny
    \/ NextFrameEof
    \/ NextFrameErr

Spec == InitSession /\ [][Next]_vars

----------------------------------------------------------------------------
(* The session against a scripted peer: each read delivers the next chunk
   of the script, and the peer closes once the script is exhausted *)

ChunkMenu ==
    { <<255, 251, 1>>, <<104, 105>>, <<255, 251>>, <<1>>, <<104>>, <<105>>,
      <<255>>, <<27, 91>> }

InitScripted ==
    /\ script \in SeqsUpTo(ChunkMenu, MaxChunks)
    /\ buffer = <<>>
    /\ pre = <<>>
    /\ result = None
    /\ nreads = 0
    /\ decodes = 0
    /\ received = <<>>
    /\ consumed = <<>>
    /\ span = <<>>
    /\ log = <<>>
    /\ reads = <<>>
    /\ expect = <<>>
    /\ writes = PreludeWrites
    /\ pc = "run"

ReadScripted ==
    /\ script # <<>>
    /\ NextFrameRead(Head(script))
    /\ script' = Tail(script)

NextScripted ==
    \/ NextFrameDecoded
    \/ ReadScripted
    \/ NextFrameEof
    \/ NextFrameErr

SpecScripted == InitScripted /\ [][NextScripted]_vars

----------------------------------------------------------------------------
(* process from its first call on: the three negotiations, the terminal-type
   request, then the loop, against a scripted peer *)

InitProcess ==
    /\ script \in SeqsUpTo(ChunkMenu, MaxChunks)
    /\ buffer = <<>>
    /\ pre = <<>>
    /\ result = None
    /\ nreads = 0
    /\ decodes = 0
    /\ received = <<>>
    /\ consumed = <<>>
    /\ span = <<>>
    /\ log = <<>>
    /\ reads = <<>>
    /\ writes = <<>>
    /\ expect = <<>>
    /\ pc = "will_echo"

\* The three send_negotiation calls of process, in their order; each is one
\* write_all, and a failed write ends process with the error.
NegotiationAt(p) ==
    IF p = "will_echo" THEN NegotiationBytes(Will, Echo)
    ELSE IF p = "will_sga" THEN NegotiationBytes(Will, SuppressGoAhead)
    ELSE NegotiationBytes(Do, TerminalType)

AfterNegotiation(p) ==
    IF p = "will_echo" THEN "will_sga"
    ELSE IF p = "will_sga" THEN "do_ttype"
    ELSE "ttype"

SendNegotiation ==
    /\ pc \in {"will_echo", "will_sga", "do_ttype"}
    /\ \E ok \in BOOLEAN :
         /\ writes' = Append(writes, WriteRec(NegotiationAt(pc), ok))
         /\ result' = IF ok THEN ResultOk ELSE ResultErr
         /\ pc' = IF ok THEN AfterNegotiation(pc) ELSE "failed"
    /\ UNCHANGED << buffer, pre, nreads, decodes, received, consumed, span,
                    log, reads, script, expect >>

\* Variant: the first write's result is dropped (no `?`), so the second
\* write is made whatever the first one returned.
RequestTerminalTypeUnchecked ==
    /\ pc = "ttype"
    /\ \E ok1 \in BOOLEAN, ok2 \in BOOLEAN :
         /\ writes' = writes \o << WriteRec(TerminalTypeDo, ok1),
                                   WriteRec(TerminalTypeSend, ok2) >>
         /\ result' = IF ok2 THEN ResultOk ELSE ResultErr
         /\ pc' = IF ok2 THEN "run" ELSE "failed"
    /\ UNCHANGED << buffer, pre, nreads, decodes, received, consumed, span,
                    log, reads, script, expect >>

\* Connection::request_terminal_type: write_all of the DO command and, only
\* if it returned Ok, write_all of the subnegotiation block; the first Err
\* is returned, and process returns it.
RequestTerminalType ==
    /\ pc = "ttype"
    /\ \E ok1 \in BOOLEAN, ok2 \in BOOLEAN :
         /\ writes' = IF ok1
                      THEN writes \o << WriteRec(TerminalTypeDo, TRUE),
                                        WriteRec(TerminalTypeSend, ok2) >>
                      ELSE Append(writes, WriteRec(TerminalTypeDo, FALSE))
         /\ result' = IF ok1 /\ ok2 THEN ResultOk ELSE ResultErr
         /\ pc' = IF ok1 /\ ok2 THEN "run" ELSE "failed"
    /\ UNCHANGED << buffer, pre, nreads, decodes, received, consumed, span,
                    log, reads, script, expect >>

NextProcess ==
    \/ SendNegotiation
    \/ RequestTerminalType
    \/ NextFrameDecoded
    \/ ReadScripted
    \/ NextFrameEof
    \/ NextFrameErr

SpecProcess == InitProcess /\ [][NextProcess]_vars

----------------------------------------------------------------------------
(* Round trip: the raw bytes of a Command, a ControlEscape and a Data frame,
   concatenated, are decoded by three successive calls *)

\* The bytes that carry a frame on the wire; the escaped literal IAC IAC is
\* what carries Data([IAC]).
Raw(f) == IF f = Frame("Data", <<IAC>>) THEN <<IAC, IAC>> ELSE f.bytes

\* A command: IAC verb option, or IAC SB ... IAC SE with no earlier IAC SE.
IsCommand(s) ==
    /\ Len(s) >= 3
    /\ s[1] = IAC
    /\ \/ Len(s) = 3 /\ s[2] \notin {IAC, SB}
       \/ /\ s[2] = SB
          /\ Len(s) >= 4
          /\ s[Len(s) - 1] = IAC
          /\ s[Len(s)] = SE
          /\ \A i \in 1..(Len(s) - 2) : ~(s[i] = IAC /\ s[i + 1] = SE)

\* A control escape: ESC '[', bytes outside the final range, a final byte.
IsCsi(s) ==
    /\ Len(s) >= 3
    /\ s[1] = ESC
    /\ s[2] = LBracket
    /\ IsFinal(s[Len(s)])
    /\ \A i \in 3..(Len(s) - 1) : ~IsFinal(s[i])

\* Data: a non-empty run without introducer, or the escaped literal's IAC.
IsData(s) ==
    \/ s # <<>> /\ \A i \in 1..Len(s) : ~IsIntroducer(s[i])
    \/ s = <<IAC>>

CommandFrames == {Frame("IAC", s) : s \in {t \in SeqsUpTo(Bytes, MaxCommand) : IsCommand(t)}}
CsiFrames == {Frame("CSI", s) : s \in {t \in SeqsUpTo(Bytes, MaxCsi) : IsCsi(t)}}
DataFrames == {Frame("Data", s) : s \in {t \in SeqsUpTo(Bytes, MaxData) : IsData(t)}}

InitRoundTrip ==
    /\ \E c \in CommandFrames, e \in CsiFrames, d \in DataFrames :
         /\ expect = <<c, e, d>>
         /\ buffer = Raw(c) \o Raw(e) \o Raw(d)
    /\ pre = <<>>
    /\ result = None
    /\ nreads = 0
    /\ decodes = 0
    /\ received = <<>>
    /\ consumed = <<>>
    /\ span = <<>>
    /\ log = <<>>
    /\ reads = <<>>
    /\ script = <<>>
    /\ writes = <<>>
    /\ pc = "decode"

SpecRoundTrip == InitRoundTrip /\ [][NextDecode]_vars

----------------------------------------------------------------------------
(* Properties *)

Called == decodes > 0
IsPayloadFrame(f) == f.kind \in {"IAC", "CSI", "Data"}
BeginsSubnegotiation(s) == Len(s) >= 2 /\ s[1] = IAC /\ s[2] = SB
\* The byte pair IAC SE stands at index i (1-based) of s.
TerminatorAt(s, i) == i + 1 <= Len(s) /\ s[i] = IAC /\ s[i + 1] = SE
HasTerminator(s) == \E i \in 1..Len(s) : TerminatorAt(s, i)

\* C1: no byte is lost, duplicated or reordered.  The bytes received so far
\* are the spans consumed so far, in order, followed by the buffer; a frame's
\* payload is the span it consumed, except that the span IAC IAC is
\* delivered as Data([IAC]).
C1_NoByteLost ==
    /\ received = consumed \o buffer
    /\ IsPayloadFrame(result) =>
          IF span = <<IAC, IAC>>
          THEN result = Frame("Data", <<IAC>>)
          ELSE result.bytes = span

\* An escaped literal was consumed after an earlier frame, with bytes still
\* buffered behind it.
C1_Witness ==
    /\ span = <<IAC, IAC>>
    /\ result = Frame("Data", <<IAC>>)
    /\ Len(consumed) > 2
    /\ buffer # <<>>

\* C2: next_frame never reads while a frame is decodable.  In every call,
\* if the decode sequence returns a frame from the buffered bytes, that frame
\* is the call's result and the call performs no read; a call that reads is
\* one whose decode result was None.
C2_NoReadWhileDecodable ==
    Called =>
        /\ Decode(pre).frame # None => result = Decode(pre).frame /\ nreads = 0
        /\ nreads > 0 => Decode(pre).frame = None

\* A command was returned without a read while more bytes stayed buffered.
C2_Witness ==
    /\ Called
    /\ result.kind = "IAC"
    /\ nreads = 0
    /\ buffer # <<>>

\* C3: a Pending result leaves the buffer as it was.  Whenever parse_iac,
\* parse_csi and parse_data all report no match on a buffer, the buffer after
\* the decode call equals the buffer before it.
C3_PendingNoSideEffect ==
    ( /\ Called
      /\ parse_iac(pre).frame = None
      /\ parse_csi(pre).frame = None
      /\ parse_data(pre).frame = None )
    => buffer = pre

\* An unterminated subnegotiation was decoded to no frame.
C3_Witness ==
    /\ Called
    /\ pre = <<IAC, SB, 1, IAC>>
    /\ result = None
    /\ buffer = pre

\* C4: when decode yields Pending, next_frame performs exactly one read and
\* no second decode, and returns None if the read returned 0 bytes, None if
\* the read failed, and otherwise Next with the bytes read appended at the
\* tail of the buffer.
C4_PendingReadsOnce ==
    (Called /\ Decode(pre).frame = None) =>
        /\ nreads = 1
        /\ decodes = 1
        /\ reads # <<>>
        /\ LET r == reads[Len(reads)]
           IN  IF r.ok /\ r.bytes # <<>>
               THEN result = NextFrameSentinel /\ buffer = pre \o r.bytes
               ELSE result = None

\* A partial frame was buffered, and the call read more and returned Next.
C4_Witness ==
    /\ Called
    /\ pre # <<>>
    /\ Decode(pre).frame = None
    /\ nreads = 1
    /\ result = NextFrameSentinel
    /\ buffer = pre \o reads[Len(reads)].bytes

\* C5: end to end.  When the reads deliver 0xFF 0xFB 0x01, then "hi", then
\* the peer's close, the results of the calls, retry sentinels left out, are
\* Command [0xFF,0xFB,0x01], Data "hi", end-of-stream, in this order.
C5_EndToEnd ==
    reads = << ReadOk(<<255, 251, 1>>), ReadOk(<<104, 105>>), ReadOk(<<>>) >>
    => log = << Frame("IAC", <<255, 251, 1>>), Frame("Data", <<104, 105>>), None >>

\* The session of the scenario has run to its end.
C5_Witness ==
    /\ reads = << ReadOk(<<255, 251, 1>>), ReadOk(<<104, 105>>), ReadOk(<<>>) >>
    /\ pc = "done"
    /\ result = None

\* C6: round trip.  The concatenation of the raw bytes of a Command, a
\* ControlEscape and a Data frame is decoded by three successive calls into
\* these three frames, in this order, and the buffer is then empty.
C6_RoundTrip ==
    expect # <<>> =>
        /\ \A i \in 1..Len(log) : log[i] = expect[i]
        /\ Len(log) = Len(expect) => buffer = <<>>

\* A subnegotiation, a control escape with a parameter byte and a two-byte
\* data run have been decoded back.
C6_Witness ==
    /\ Len(expect) = 3
    /\ Len(log) = 3
    /\ BeginsSubnegotiation(expect[1].bytes)
    /\ Len(expect[2].bytes) = 4
    /\ Len(expect[3].bytes) = 2
    /\ buffer = <<>>

\* C7: a subnegotiation is closed by the first IAC SE.  Decoding a buffer
\* that begins IAC SB and contains IAC SE yields Command with the bytes up to
\* and including the first IAC SE, and the bytes after it stay buffered
\* unchanged.
C7_FirstTerminator ==
    (Called /\ BeginsSubnegotiation(pre)) =>
        \A i \in 1..Len(pre) :
            (TerminatorAt(pre, i) /\ \A j \in 1..(i - 1) : ~TerminatorAt(pre, j))
            => /\ result = Frame("IAC", SubSeq(pre, 1, i + 1))
               /\ buffer = SubSeq(pre, i + 2, Len(pre))

\* The bytes left behind hold another terminator.
C7_Witness ==
    /\ Called
    /\ pre = <<IAC, SB, IAC, SE, IAC, SE>>
    /\ result = Frame("IAC", <<IAC, SB, IAC, SE>>)
    /\ buffer = <<IAC, SE>>

\* C8: parse_iac on a buffer that begins IAC SB and holds an SE byte returns
\* IAC with the bytes through the first SE inclusive, whether or not IAC
\* precedes that SE, and leaves the bytes after it.
C8_SingleByteTerminator ==
    (Called /\ BeginsSubnegotiation(pre)) =>
        \A i \in 1..Len(pre) :
            (pre[i] = SE /\ \A j \in 1..(i - 1) : pre[j] # SE)
            => parse_iac(pre) = Out(Frame("IAC", SubSeq(pre, 1, i)),
                                    SubSeq(pre, i + 1, Len(pre)))

C10_AnyVerb ==
    (Called /\ Len(pre) >= 3 /\ pre[1] = IAC)
    => /\ result = Frame("IAC", SubSeq(pre, 1, 3))
       /\ buffer = SubSeq(pre, 4, Len(pre))

\* C10 amended: the same, for a second byte that is neither IAC (the escaped
\* literal) nor SB (a subnegotiation).
C10_OpaqueOperands ==
    (Called /\ Len(pre) >= 3 /\ pre[1] = IAC /\ pre[2] \notin {IAC, SB})
    => /\ result = Frame("IAC", SubSeq(pre, 1, 3))
       /\ buffer = SubSeq(pre, 4, Len(pre))

\* A verb and an option outside the enumerations were passed through.
C10_Witness ==
    /\ Called
    /\ pre = <<IAC, 1, ESC, 104>>
    /\ result = Frame("IAC", <<IAC, 1, ESC>>)
    /\ buffer = <<104>>

\* C11: the escaped literal.  For every buffer that begins IAC IAC, decode
\* consumes exactly these two bytes, yields Data([IAC]) and leaves the rest
\* of the buffer unchanged; the second IAC is not read as a verb.
C11_EscapedLiteral ==
    (Called /\ Len(pre) >= 2 /\ pre[1] = IAC /\ pre[2] = IAC)
    => /\ result = Frame("Data", <<IAC>>)
       /\ buffer = SubSeq(pre, 3, Len(pre))

\* An escaped literal with bytes behind it that would complete a command.
C11_Witness ==
    /\ Called
    /\ pre = <<IAC, IAC, 1, 104>>
    /\ result = Frame("Data", <<IAC>>)
    /\ buffer = <<1, 104>>

HasIntroducer(s) == \E i \in 1..Len(s) : IsIntroducer(s[i])
\* The first introducer byte of s stands at index i (1-based).
FirstIntroducerAt(s, i) ==
    /\ i \in 1..Len(s)
    /\ IsIntroducer(s[i])
    /\ \A j \in 1..(i - 1) : ~IsIntroducer(s[j])
\* The first final byte of s at index 3 or later (1-based) stands at i.
FirstFinalAt(s, i) ==
    /\ i \in 3..Len(s)
    /\ IsFinal(s[i])
    /\ \A j \in 3..(i - 1) : ~IsFinal(s[j])
BeginsCsi(s) == Len(s) >= 2 /\ s[1] = ESC /\ s[2] = LBracket

\* C12 as stated: for every non-empty buffer whose first byte is neither
\* IAC nor ESC, decode yields Data with the entire buffer and leaves the
\* buffer empty.
C12_FirstByteOnly ==
    (Called /\ pre # <<>> /\ ~IsIntroducer(pre[1]))
    => result = Frame("Data", pre) /\ buffer = <<>>

\* C12 amended: the same, for a non-empty buffer that holds no IAC and no
\* ESC at all.
C12_PlainBuffer ==
    (Called /\ pre # <<>> /\ ~HasIntroducer(pre))
    => result = Frame("Data", pre) /\ buffer = <<>>

\* A buffer of plain bytes was handed out whole.
C12_Witness ==
    /\ Called
    /\ pre = <<1, 104, SB>>
    /\ result = Frame("Data", pre)
    /\ buffer = <<>>

\* C13: data stops at the first introducer.  For every buffer whose first
\* IAC or ESC byte is at index i > 0, parse_data returns Data with exactly
\* the first i bytes and leaves the buffer starting at that byte; when it is
\* at index 0, parse_data returns no match and consumes nothing.
C13_DataStopsAtIntroducer ==
    Called =>
        \A i \in 1..Len(pre) :
            FirstIntroducerAt(pre, i) =>
                IF i = 1
                THEN parse_data(pre) = Out(None, pre)
                ELSE /\ parse_data(pre) = Out(Frame("Data", SubSeq(pre, 1, i - 1)),
                                              SubSeq(pre, i, Len(pre)))
                     /\ result = Frame("Data", SubSeq(pre, 1, i - 1))
                     /\ buffer = SubSeq(pre, i, Len(pre))

\* A data run was cut in front of an ESC.
C13_Witness ==
    /\ Called
    /\ pre = <<1, 104, ESC, 1>>
    /\ result = Frame("Data", <<1, 104>>)
    /\ buffer = <<ESC, 1>>

\* C14: control-escape framing.  For every buffer that begins ESC '[', if k
\* is the index of the first byte in 0x40..=0x7E at index 2 or later, decode
\* yields ControlEscape with the bytes 0..k inclusive and leaves the bytes
\* after k; if no such byte is buffered, decode yields no frame and consumes
\* nothing.
C14_CsiFraming ==
    (Called /\ BeginsCsi(pre)) =>
        /\ \A k \in 3..Len(pre) :
              FirstFinalAt(pre, k) =>
                 /\ result = Frame("CSI", SubSeq(pre, 1, k))
                 /\ buffer = SubSeq(pre, k + 1, Len(pre))
        /\ (~\E k \in 3..Len(pre) : IsFinal(pre[k]))
              => result = None /\ buffer = pre

\* A control escape with a parameter byte was framed; a byte stayed behind.
C14_Witness ==
    /\ Called
    /\ pre = <<ESC, LBracket, 1, 104, 104>>
    /\ result = Frame("CSI", <<ESC, LBracket, 1, 104>>)
    /\ buffer = <<104>>

\* C15 as stated: every Data frame returned in a session holds one or more
\* bytes, none of which is IAC or ESC.
C15_DataHasNoIntroducer ==
    \A i \in 1..Len(log) :
        log[i].kind = "Data" =>
            log[i].bytes # <<>> /\ ~HasIntroducer(log[i].bytes)

\* C15 amended: every Data frame returned in a session holds one or more
\* bytes and either is Data([IAC]), the escaped literal, or holds no IAC
\* and no ESC.
C15_DataPayload ==
    \A i \in 1..Len(log) :
        log[i].kind = "Data" =>
            /\ log[i].bytes # <<>>
            /\ log[i].bytes = <<IAC>> \/ ~HasIntroducer(log[i].bytes)

\* A session returned a plain data run and then an escaped literal.
C15_Witness ==
    /\ Len(log) = 2
    /\ log[1] = Frame("Data", <<104, SE>>)
    /\ log[2] = Frame("Data", <<IAC>>)

\* C16: decoding an empty buffer is idempotent.  Every decode call on an
\* empty buffer, the first and any one after it, returns no frame and
\* leaves the buffer empty.
C16_EmptyIdempotent ==
    (Called /\ pre = <<>>) => result = None /\ buffer = <<>>

\* The empty buffer was decoded.
C16_Witness ==
    /\ Called
    /\ pre = <<>>
    /\ result = None
    /\ buffer = <<>>

\* Repeated decode calls on buf, with no read in between, reach a call that
\* returns no frame within n calls that return one.
RECURSIVE PendingWithin(_, _)
PendingWithin(buf, n) ==
    IF Decode(buf).frame = None THEN TRUE
    ELSE n > 0 /\ PendingWithin(Decode(buf).buffer, n - 1)

\* C19: progress.  Every decode call that returns a frame removes at least
\* one byte from the head of the buffer and returns a non-empty payload, so
\* repeated calls without a read return Pending after at most as many frames
\* as there were buffered bytes.
C19_Progress ==
    /\ (Called /\ result # None) =>
          /\ Len(buffer) < Len(pre)
          /\ buffer = SubSeq(pre, Len(pre) - Len(buffer) + 1, Len(pre))
          /\ result.bytes # <<>>
    /\ PendingWithin(buffer, Len(buffer))

\* A call returned a one-byte frame and more frames are still buffered.
C19_Witness ==
    /\ Called
    /\ pre = <<104, IAC, IAC, ESC, LBracket, 104>>
    /\ result = Frame("Data", <<104>>)
    /\ Len(buffer) = 5

\* C17: the terminal-type request is a fixed two-step write sequence.  The
\* fourth write of process, the first of request_terminal_type, is the
\* command 0xFF 253 24; the block 0xFF 250 24 1 0xFF 240 is written next and
\* only after that write returned Ok; if the first write fails, no second
\* write is attempted and the failure is returned.
C17_TwoStepRequest ==
    Len(writes) >= 4 =>
        /\ writes[4].bytes = <<255, 253, 24>>
        /\ writes[4].ok =>
              /\ Len(writes) >= 5
              /\ writes[5].bytes = <<255, 250, 24, 1, 255, 240>>
              /\ ~writes[5].ok => Len(writes) = 5 /\ pc = "failed"
        /\ ~writes[4].ok =>
              /\ Len(writes) = 4
              /\ result = ResultErr
              /\ pc = "failed"

\* The first write of the request failed and process returned the error.
C17_Witness ==
    /\ Len(writes) = 4
    /\ writes[4] = WriteRec(<<255, 253, 24>>, FALSE)
    /\ result = ResultErr
    /\ pc = "failed"

\* C18: Pending is always resolvable by more input.  For every non-empty
\* buffer on which decode yields no frame there are bytes that, appended by
\* later reads, make decode return a frame.
C18_PendingResolvable ==
    (Called /\ pre # <<>> /\ result = None) =>
        \E more \in SeqsUpTo(Bytes, MaxAppend) : Decode(pre \o more).frame # None

\* The frames repeated decode calls return on buf until one returns none.
RECURSIVE DecodeAll(_)
DecodeAll(buf) ==
    LET d == Decode(buf)
    IN  IF d.frame = None THEN <<>> ELSE <<d.frame>> \o DecodeAll(d.buffer)

\* A frame sequence with every run of adjacent Data frames joined into one.
RECURSIVE MergeData(_)
MergeData(fs) ==
    IF Len(fs) <= 1 THEN fs
    ELSE IF fs[1].kind = "Data" /\ fs[2].kind = "Data"
    THEN MergeData(<<Frame("Data", fs[1].bytes \o fs[2].bytes)>> \o SubSeq(fs, 3, Len(fs)))
    ELSE <<fs[1]>> \o MergeData(Tail(fs))

PeerClosed == pc = "done" /\ reads # <<>> /\ reads[Len(reads)] = ReadOk(<<>>)

\* C20: framing does not depend on fragmentation.  When the peer has closed,
\* the frames the session returned, adjacent Data frames joined, are the
\* frames decode returns on the whole stream delivered at once, adjacent
\* Data frames joined: every split of the stream into reads gives the same
\* Command and ControlEscape frames and the same data between them.
C20_FragmentationIndependent ==
    PeerClosed =>
        MergeData(SubSeq(log, 1, Len(log) - 1)) = MergeData(DecodeAll(received))

\* Four one-byte reads: the data run was cut differently from the way the
\* whole stream decodes.
C20_Witness ==
    /\ PeerClosed
    /\ Len(reads) = 5
    /\ received = <<104, 104, IAC, IAC>>
    /\ log = << Frame("Data", <<104>>), Frame("Data", <<104>>),
                Frame("Data", <<IAC>>), None >>

\* One sub-decoder, by name, on a buffer.
Parse(name, buf) ==
    IF name = "iac" THEN parse_iac(buf)
    ELSE IF name = "csi" THEN parse_csi(buf)
    ELSE parse_data(buf)

\* The decode sequence with the three sub-decoders tried in the given order,
\* each on the buffer as the one before left it.
DecodeInOrder(order, buf) ==
    LET a == Parse(order[1], buf)
    IN  IF a.frame # None THEN a
        ELSE LET c == Parse(order[2], a.buffer)
             IN  IF c.frame # None THEN c
                 ELSE Parse(order[3], c.buffer)

ParserOrders ==
    {o \in [1..3 -> {"iac", "csi", "data"}] : \A i, j \in 1..3 : i # j => o[i] # o[j]}

\* Longest buffer handed to a decode call that permutes the sub-decoders.
MaxOrderLen == 5

\* Every buffer up to MaxOrderLen, nothing decoded yet.
InitAnyOrder ==
    /\ buffer \in SeqsUpTo(Bytes, MaxOrderLen)
    /\ pre = <<>>
    /\ result = None
    /\ nreads = 0
    /\ decodes = 0
    /\ received = <<>>
    /\ consumed = <<>>
    /\ span = <<>>
    /\ log = <<>>
    /\ reads = <<>>
    /\ script = <<>>
    /\ expect = <<>>
    /\ writes = <<>>
    /\ pc = "decode"

\* One decode call with the sub-decoders tried in any one of the six orders.
DecodeCallAnyOrder ==
    /\ pc = "decode"
    /\ expect = <<>>
    /\ \E o \in ParserOrders :
         LET d == DecodeInOrder(o, buffer)
         IN  /\ buffer' = d.buffer
             /\ result' = d.frame
    /\ pre' = buffer
    /\ decodes' = 1
    /\ UNCHANGED << nreads, received, consumed, span, log, reads, script,
                    writes, expect, pc >>

NextAnyOrder == DecodeCallAnyOrder

SpecAnyOrder == InitAnyOrder /\ [][NextAnyOrder]_vars

\* C21: the three sub-decoders are mutually exclusive.  For every buffer at
\* most one of parse_iac, parse_csi and parse_data returns a frame, and a
\* decode call that tries the three in any order returns the frame and
\* leaves the buffer that the order of next_frame gives.
C21_MutuallyExclusive ==
    Called =>
        /\ Cardinality({n \in {"iac", "csi", "data"} : Parse(n, pre).frame # None}) <= 1
        /\ Out(result, buffer) = Decode(pre)

\* A control escape with bytes behind it: only parse_csi matched, and
\* parse_data tried first left it alone.
C21_Witness ==
    /\ Called
    /\ pre = <<ESC, LBracket, 104, 1, IAC>>
    /\ result = Frame("CSI", <<ESC, LBracket, 104>>)
    /\ buffer = <<1, IAC>>
    /\ DecodeInOrder(<<"data", "csi", "iac">>, pre) = Out(result, buffer)

=============================================================================
